---- MODULE Spec2Model ----
(***************************************************************************)
(* Model of tax_calculator.py: the bracket scan calculate_tax_for_bracket  *)
(* and the aggregation calculate_tax.                                      *)
(*                                                                         *)
(* Numbers.  Incomes, deductions and bracket bounds are whole dollars.     *)
(* A rate is an integer count of 1/RateScale (0.03078 is 3078).  A money   *)
(* amount is an exact decimal [d |-> dollars, f |-> 1/RateScale dollars],  *)
(* kept in two limbs so that no product leaves 32 bits.  The quotient of a *)
(* rate column is kept as the exact fraction [num, den].  The source       *)
(* computes in IEEE doubles; their rounding (relative 2^-53) is not        *)
(* modelled.                                                               *)
(***************************************************************************)
EXTENDS Integers, Sequences, FiniteSets, TLC

\* Denominator of a rate; 0.03078 (NYC) is the finest literal of the table.
RateScale == 100000
\* np.inf: the open upper bound of a top tier (nothing compares above it).
Inf == 2147483647
(***************************************************************************)
(* Bounds of the checked inputs.                                           *)
(***************************************************************************)
\* Every taxable income in -2 .. MaxSmallIncome is an input.
MaxSmallIncome == 320
\* Around every finite bracket bound U, the incomes U-Window .. U+Window.
Window == 1

(***************************************************************************)
(* Exact decimal money.                                                    *)
(***************************************************************************)
MZero == [d |-> 0, f |-> 0]

MAdd(a, b) ==
    LET s == a.f + b.f
    IN  [d |-> a.d + b.d + (s \div RateScale), f |-> s % RateScale]

\* rate * width, for a rate r/RateScale and a width of w >= 0 dollars.  The
\* width is split as w = 1000*hi + lo so that r*hi (in 1/100 dollars) and
\* r*lo (in 1/RateScale dollars) both stay below 2^31.
MMul(r, w) ==
    LET a == r * (w \div 1000)
        b == (a % (RateScale \div 1000)) * 1000 + r * (w % 1000)
    IN  [d |-> (a \div (RateScale \div 1000)) + (b \div RateScale),
         f |-> b % RateScale]

\* float -> int of a non-negative amount: the fraction is dropped
Trunc(m) == m.d

\* a dict {0: v0, 1: v1, ...} from its values in key order
Dict(seq) == [k \in 0 .. Len(seq) - 1 |-> seq[k + 1]]

(***************************************************************************)
(* The bracket table.  A tier is <<rate, upper_bound>>.                    *)
(***************************************************************************)
FED ==
    Dict(<< <<10000, 11925>>, <<12000, 48475>>, <<22000, 103350>>,
            <<24000, 197300>>, <<32000, 250525>>, <<35000, 626350>>,
            <<37000, Inf>> >>)

\* mutant: the open top tier of NY is missing
NYWithoutTop ==
    Dict(<< <<4000, 8500>>, <<4500, 11700>>, <<5250, 13900>>,
            <<5500, 80650>>, <<6000, 215400>>, <<6850, 1077550>>,
            <<9650, 5000000>>, <<10300, 25000000>> >>)

NY ==
    Dict(<< <<4000, 8500>>, <<4500, 11700>>, <<5250, 13900>>,
            <<5500, 80650>>, <<6000, 215400>>, <<6850, 1077550>>,
            <<9650, 5000000>>, <<10300, 25000000>>, <<10900, Inf>> >>)

NYC ==
    Dict(<< <<3078, 12000>>, <<3762, 25000>>, <<3819, 50000>>,
            <<3876, Inf>> >>)

\* mutant: the wage-base cap is missing, the rate goes on above 176100
SocSecUncapped == Dict(<< <<6200, 176100>>, <<6200, Inf>> >>)

SocSec == Dict(<< <<6200, 176100>>, <<0, Inf>> >>)

Med == Dict(<< <<1450, Inf>> >>)

\* dict.items() of TAX_BRACKETS, in insertion order
TAX_BRACKETS ==
    << [key |-> "FED", bracket |-> FED],
       [key |-> "NY", bracket |-> NY],
       [key |-> "NYC", bracket |-> NYC],
       [key |-> "Soc Sec", bracket |-> SocSec],
       [key |-> "Med", bracket |-> Med] >>

(***************************************************************************)
(* Other tax_brackets arguments: calculate_tax and the bracket scan take   *)
(* the table as a parameter.  Stepped is well formed with rates that do    *)
(* not increase; Closed ends in a finite upper bound.                      *)
(***************************************************************************)
Stepped == Dict(<< <<20000, 100>>, <<5000, 200>>, <<12500, 300>>, <<0, Inf>> >>)

Closed == Dict(<< <<10000, 100>>, <<20000, 200>> >>)

CUSTOM_BRACKETS ==
    << [key |-> "STEP", bracket |-> Stepped],
       [key |-> "CLOSED", bracket |-> Closed] >>

ScheduleSets == {TAX_BRACKETS, CUSTOM_BRACKETS}

Rate(tier) == tier[1]
Upper(tier) == tier[2]

\* the finite upper bounds of a schedule
FiniteBounds(tb) == {Upper(tb[j]) : j \in DOMAIN tb} \ {Inf}

AllSchedules ==
    UNION {{S[n].bracket : n \in 1 .. Len(S)} : S \in ScheduleSets}

(***************************************************************************)
(* The inputs that are checked.                                            *)
(***************************************************************************)
TaxableIncomes ==
    (-2 .. MaxSmallIncome)
    \cup UNION {(U - Window) .. (U + Window) :
                   U \in UNION {FiniteBounds(tb) : tb \in AllSchedules}}
    \cup {-1000, 10000, 20000, 35000, 45000, 200000, 250000, 9900000}

GrossIncomes ==
    {-1000, -1} \cup (0 .. MaxSmallIncome)
    \cup {11925, 50000, 60000, 100000, 176100, 10000000}

Deductions ==
    {-1000, -1, 0, 1, 100, 10000, 15000, 20000, 50000, 60000, 100000}

None == << >>

VARIABLES
    tax_brackets,     \* the schedule set the process was started with
    pc,               \* "idle", "scan", "loop", "returned", "raised"
    op,               \* the function the caller invoked, or "none"
    result,           \* the value returned, None before a return
    error,            \* the exception raised, "none" otherwise
    taxable_income,   \* local of either function
    tax_bracket, tax, lower_bound, i, upper_bound, tax_rate,
                      \* argument and locals of calculate_tax_for_bracket
    income, deduction, k, summary,
                      \* arguments and locals of calculate_tax; k is the
                      \* position of the for loop in tax_brackets.items()
    calls             \* calculate_tax_for_bracket invocations of this call

vars ==
    << tax_brackets, pc, op, result, error, taxable_income, tax_bracket, tax,
       lower_bound, i, upper_bound, tax_rate, income, deduction, k, summary,
       calls >>

(***************************************************************************)
(* calculate_tax_for_bracket.  A frame holds its argument and locals.      *)
(***************************************************************************)
\* mutant: the early return reports a rate of 0
EnterZeroRate(ti, tb) ==
    IF ti <= 0
    THEN [pc |-> "returned", error |-> "none", result |-> << MZero, 0 >>,
          taxable_income |-> ti, tax_bracket |-> tb, tax |-> MZero,
          lower_bound |-> 0, i |-> 0, upper_bound |-> 0, tax_rate |-> 0]
    ELSE [pc |-> "scan", error |-> "none", result |-> None,
          taxable_income |-> ti, tax_bracket |-> tb, tax |-> MZero,
          lower_bound |-> 0, i |-> 0, upper_bound |-> Upper(tb[0]),
          tax_rate |-> Rate(tb[0])]

\* lines 71-78: the early return for taxable_income <= 0, else the locals
\* before the loop
Enter(ti, tb) ==
    IF ti <= 0
    THEN [pc |-> "returned", error |-> "none",
          result |-> << MZero, Rate(tb[0]) >>,
          taxable_income |-> ti, tax_bracket |-> tb, tax |-> MZero,
          lower_bound |-> 0, i |-> 0, upper_bound |-> 0, tax_rate |-> 0]
    ELSE [pc |-> "scan", error |-> "none", result |-> None,
          taxable_income |-> ti, tax_bracket |-> tb, tax |-> MZero,
          lower_bound |-> 0, i |-> 0, upper_bound |-> Upper(tb[0]),
          tax_rate |-> Rate(tb[0])]

\* mutant: an income at a bound moves on to the next tier
LoopCondAtBound(fr) == fr.taxable_income >= fr.upper_bound

\* line 80: the while condition
LoopCond(fr) == fr.taxable_income > fr.upper_bound

\* mutant: lower_bound is not moved up to the bound just passed
AdvanceKeepLower(fr) ==
    LET tax1 == MAdd(fr.tax, MMul(fr.tax_rate, fr.upper_bound - fr.lower_bound))
        i1 == fr.i + 1
        fr1 == [fr EXCEPT !.tax = tax1, !.i = i1]
    IN  IF i1 \in DOMAIN fr.tax_bracket
        THEN [fr1 EXCEPT !.upper_bound = Upper(fr.tax_bracket[i1]),
                         !.tax_rate = Rate(fr.tax_bracket[i1])]
        ELSE [fr1 EXCEPT !.pc = "raised", !.error = "KeyError"]

\* lines 81-85: one iteration; tax_bracket[i] raises KeyError past the end
Advance(fr) ==
    LET tax1 == MAdd(fr.tax, MMul(fr.tax_rate, fr.upper_bound - fr.lower_bound))
        i1 == fr.i + 1
        fr1 == [fr EXCEPT !.tax = tax1, !.i = i1,
                          !.lower_bound = fr.upper_bound]
    IN  IF i1 \in DOMAIN fr.tax_bracket
        THEN [fr1 EXCEPT !.upper_bound = Upper(fr.tax_bracket[i1]),
                         !.tax_rate = Rate(fr.tax_bracket[i1])]
        ELSE [fr1 EXCEPT !.pc = "raised", !.error = "KeyError"]

\* mutant: tax = ... in place of tax += ...
FinishOverwrite(fr) ==
    LET tax1 == MMul(fr.tax_rate, fr.taxable_income - fr.lower_bound)
    IN  [fr EXCEPT !.tax = tax1, !.pc = "returned",
                   !.result = << tax1, fr.tax_rate >>]

\* lines 87-88: the remainder in the tier reached, and the return
Finish(fr) ==
    LET tax1 == MAdd(fr.tax,
                     MMul(fr.tax_rate, fr.taxable_income - fr.lower_bound))
    IN  [fr EXCEPT !.tax = tax1, !.pc = "returned",
                   !.result = << tax1, fr.tax_rate >>]

RECURSIVE Scan(_)
Scan(fr) ==
    IF fr.pc # "scan" THEN fr
    ELSE IF LoopCond(fr) THEN Scan(Advance(fr))
    ELSE Finish(fr)

\* the whole call, as calculate_tax makes it
calculate_tax_for_bracket(ti, tb) == Scan(Enter(ti, tb))

(***************************************************************************)
(* calculate_tax.                                                          *)
(***************************************************************************)
\* mutant: the deduction is not checked
ValidateIncomeOnly(inc, ded) ==
    IF inc < 0 THEN "ValueError: Income cannot be negative" ELSE "none"

\* lines 110-113: the message of the ValueError raised, "none" when valid
Validate(inc, ded) ==
    IF inc < 0 THEN "ValueError: Income cannot be negative"
    ELSE IF ded < 0 THEN "ValueError: Deduction cannot be negative"
    ELSE "none"

\* mutant: the base is not floored at 0
TaxableUnclamped(inc, ded) == inc - ded

\* line 115
Taxable(inc, ded) == IF inc - ded > 0 THEN inc - ded ELSE 0

\* the float 0.0 of the two guarded divisions
NoRate == [num |-> MZero, den |-> 1]

\* m / n for n > 0, kept exact
Quot(m, n) == [num |-> m, den |-> n]

\* sum of two quotients of one summary column; a column's quotients share
\* their denominator (taxable_income, income, or 1 for the 0.0 fallback)
RAdd(a, b) == [num |-> MAdd(a.num, b.num), den |-> a.den]

\* lines 121-128: the column stored under key for the engine's return ret
Column(key, ret, ti, inc) ==
    [key |-> key,
     Tax |-> ret[1],
     Nominal |-> IF ti > 0 THEN Quot(ret[1], ti) ELSE NoRate,
     Marginal |-> ret[2],
     Effective |-> IF inc > 0 THEN Quot(ret[1], inc) ELSE NoRate]

\* line 130: summary.sum(axis=1) over the columns 1..n
RECURSIVE SumColumns(_, _)
SumColumns(s, n) ==
    IF n = 1 THEN [s[1] EXCEPT !.key = "ALL"]
    ELSE LET acc == SumColumns(s, n - 1)
         IN  [key |-> "ALL",
              Tax |-> MAdd(acc.Tax, s[n].Tax),
              Nominal |-> RAdd(acc.Nominal, s[n].Nominal),
              Marginal |-> acc.Marginal + s[n].Marginal,
              Effective |-> RAdd(acc.Effective, s[n].Effective)]

\* line 132: the Tax column cast to int
AsInt(s) == [n \in 1 .. Len(s) |-> [s[n] EXCEPT !.Tax = Trunc(s[n].Tax)]]

\* the Tax values of the rows 1..n of a summary after the cast, summed
RECURSIVE SumRowTax(_, _)
SumRowTax(s, n) == IF n = 0 THEN 0 ELSE SumRowTax(s, n - 1) + s[n].Tax

\* mutant: the cast comes first, the ALL row sums the truncated taxes
FinalizeCastFirst(s) ==
    LET t == AsInt(s)
        all == SumColumns(s, Len(s))
    IN  Append(t, [all EXCEPT !.Tax = SumRowTax(t, Len(t))])

\* lines 130-133: the ALL row is summed first, the cast comes after
Finalize(s) == AsInt(Append(s, SumColumns(s, Len(s))))

\* the row of a summary stored under key
Row(s, key) == s[CHOOSE n \in 1 .. Len(s) : s[n].key = key]

(***************************************************************************)
(* The state machine.                                                      *)
(***************************************************************************)
Halted ==
    /\ pc = "idle" /\ op = "none" /\ result = None /\ error = "none"
    /\ taxable_income = 0 /\ tax_bracket = None /\ tax = MZero
    /\ lower_bound = 0 /\ i = 0 /\ upper_bound = 0 /\ tax_rate = 0
    /\ income = 0 /\ deduction = 0 /\ k = 0 /\ summary = None
    /\ calls = 0

Init == tax_brackets \in ScheduleSets /\ Halted

Frame ==
    [pc |-> pc, error |-> error, result |-> result,
     taxable_income |-> taxable_income, tax_bracket |-> tax_bracket,
     tax |-> tax, lower_bound |-> lower_bound, i |-> i,
     upper_bound |-> upper_bound, tax_rate |-> tax_rate]

SetFrame(fr) ==
    /\ pc' = fr.pc /\ error' = fr.error /\ result' = fr.result
    /\ taxable_income' = fr.taxable_income /\ tax_bracket' = fr.tax_bracket
    /\ tax' = fr.tax /\ lower_bound' = fr.lower_bound /\ i' = fr.i
    /\ upper_bound' = fr.upper_bound /\ tax_rate' = fr.tax_rate

\* a direct call of calculate_tax_for_bracket, up to the loop (lines 71-78)
BracketEnter ==
    /\ pc = "idle"
    /\ \E ti \in TaxableIncomes, n \in 1 .. Len(tax_brackets) :
           SetFrame(Enter(ti, tax_brackets[n].bracket))
    /\ op' = "calculate_tax_for_bracket"
    /\ UNCHANGED << tax_brackets, income, deduction, k, summary, calls >>

\* one iteration of the while loop (lines 80-85)
ScanAdvance ==
    /\ pc = "scan"
    /\ LoopCond(Frame)
    /\ SetFrame(Advance(Frame))
    /\ UNCHANGED << tax_brackets, op, income, deduction, k, summary, calls >>

\* the loop exit and the return (lines 80, 87-88)
ScanFinish ==
    /\ pc = "scan"
    /\ ~LoopCond(Frame)
    /\ SetFrame(Finish(Frame))
    /\ UNCHANGED << tax_brackets, op, income, deduction, k, summary, calls >>

\* a call of calculate_tax, up to the for loop (lines 110-116)
TaxEnter ==
    /\ pc = "idle"
    /\ \E inc \in GrossIncomes, ded \in Deductions :
           /\ income' = inc
           /\ deduction' = ded
           /\ IF Validate(inc, ded) # "none"
              THEN /\ pc' = "raised"
                   /\ error' = Validate(inc, ded)
                   /\ UNCHANGED << taxable_income, k, summary >>
              ELSE /\ pc' = "loop"
                   /\ error' = "none"
                   /\ taxable_income' = Taxable(inc, ded)
                   /\ summary' = << >>
                   /\ k' = 1
    /\ op' = "calculate_tax"
    /\ UNCHANGED << tax_brackets, result, tax_bracket, tax, lower_bound, i,
                    upper_bound, tax_rate, calls >>

\* one iteration of the for loop (lines 118-128), the engine call included
TaxLoop ==
    /\ pc = "loop"
    /\ k <= Len(tax_brackets)
    /\ LET item == tax_brackets[k]
           fr == calculate_tax_for_bracket(taxable_income, item.bracket)
       IN  /\ calls' = calls + 1
           /\ IF fr.pc = "raised"
              THEN /\ pc' = "raised"
                   /\ error' = fr.error
                   /\ UNCHANGED << k, summary >>
              ELSE /\ summary' = Append(summary,
                                        Column(item.key, fr.result,
                                               taxable_income, income))
                   /\ k' = k + 1
                   /\ UNCHANGED << pc, error >>
    /\ UNCHANGED << tax_brackets, op, result, taxable_income, tax_bracket, tax,
                    lower_bound, i, upper_bound, tax_rate, income, deduction >>

\* after the for loop: the ALL row, the int cast, the return (lines 130-133)
TaxFinish ==
    /\ pc = "loop"
    /\ k > Len(tax_brackets)
    /\ summary' = Finalize(summary)
    /\ result' = summary'
    /\ pc' = "returned"
    /\ UNCHANGED << tax_brackets, op, error, taxable_income, tax_bracket, tax,
                    lower_bound, i, upper_bound, tax_rate, income, deduction,
                    k, calls >>

\* the caller takes the value or the exception; the frame is gone
Return ==
    /\ pc \in {"returned", "raised"}
    /\ pc' = "idle" /\ op' = "none" /\ result' = None /\ error' = "none"
    /\ taxable_income' = 0 /\ tax_bracket' = None /\ tax' = MZero
    /\ lower_bound' = 0 /\ i' = 0 /\ upper_bound' = 0 /\ tax_rate' = 0
    /\ income' = 0 /\ deduction' = 0 /\ k' = 0 /\ summary' = None
    /\ calls' = 0
    /\ UNCHANGED tax_brackets

Next ==
    \/ BracketEnter
    \/ ScanAdvance
    \/ ScanFinish
    \/ TaxEnter
    \/ TaxLoop
    \/ TaxFinish
    \/ Return

Spec == Init /\ [][Next]_vars

\* the loop of one call always runs on: the interpreter is sequential
FairSpec == Spec /\ WF_vars(ScanAdvance) /\ WF_vars(ScanFinish)

(***************************************************************************)
(* Vocabulary of the properties.                                           *)
(***************************************************************************)
LastIndex(tb) == Cardinality(DOMAIN tb) - 1

\* a tier's lower bound: the previous tier's upper bound, 0 for the first
Lower(tb, j) == IF j = 0 THEN 0 ELSE Upper(tb[j - 1])

Increasing(tb) == \A j \in DOMAIN tb : Lower(tb, j) < Upper(tb[j])

Open(tb) == Upper(tb[LastIndex(tb)]) = Inf

WellFormed(tb) ==
    /\ Increasing(tb)
    /\ Open(tb)
    /\ \A j \in DOMAIN tb : Rate(tb[j]) >= 0

Min(a, b) == IF a <= b THEN a ELSE b

\* a <= b for two money amounts
MLeq(a, b) == a.d < b.d \/ (a.d = b.d /\ a.f <= b.f)

\* the sum over the tiers 0..j whose lower bound is below ti of
\* rate * (min(ti, upper bound) - lower bound)
RECURSIVE SumTiers(_, _, _)
SumTiers(tb, ti, j) ==
    IF j < 0 THEN MZero
    ELSE MAdd(SumTiers(tb, ti, j - 1),
              IF Lower(tb, j) < ti
              THEN MMul(Rate(tb[j]), Min(ti, Upper(tb[j])) - Lower(tb, j))
              ELSE MZero)

\* the first tier whose upper bound is >= ti
FirstTierAtOrAbove(tb, ti) ==
    CHOOSE j \in DOMAIN tb :
        /\ Upper(tb[j]) >= ti
        /\ \A m \in DOMAIN tb : m < j => Upper(tb[m]) < ti

\* the full tax of the tiers 0..j
RECURSIVE FullTiers(_, _)
FullTiers(tb, j) ==
    IF j < 0 THEN MZero
    ELSE MAdd(FullTiers(tb, j - 1),
              MMul(Rate(tb[j]), Upper(tb[j]) - Lower(tb, j)))

Shipped == {TAX_BRACKETS[n].bracket : n \in 1 .. Len(TAX_BRACKETS)}

BracketReturned ==
    op = "calculate_tax_for_bracket" /\ pc = "returned"

(***************************************************************************)
(* C1: for a well-formed schedule and taxable_income > 0 the bracket scan  *)
(* returns the sum, over the tiers whose lower bound is below the income,  *)
(* of rate * (min(income, upper bound) - lower bound), and the rate of the *)
(* first tier whose upper bound is >= the income; FED at 20000 gives       *)
(* 2161.5 at 0.12.                                                         *)
(***************************************************************************)
C1_ClosedForm ==
    (BracketReturned /\ taxable_income > 0 /\ WellFormed(tax_bracket)) =>
        /\ result[1] = SumTiers(tax_bracket, taxable_income,
                                LastIndex(tax_bracket))
        /\ result[2] = Rate(tax_bracket[FirstTierAtOrAbove(tax_bracket,
                                                           taxable_income)])
        /\ (tax_bracket = FED /\ taxable_income = 20000) =>
               result = << [d |-> 2161, f |-> 50000], 12000 >>

C1_Witness ==
    /\ BracketReturned /\ tax_bracket = FED /\ taxable_income = 20000
    /\ i = 1 /\ result[2] = 12000

(***************************************************************************)
(* C2: an income equal to the finite upper bound of tier j stops the scan  *)
(* at tier j: the marginal rate is tier j's, the tax is the full tax of    *)
(* the tiers below j plus rate_j * (U_j - U_(j-1)); FED at 11925 gives     *)
(* 1192.5 at 0.10.                                                         *)
(***************************************************************************)
C2_BoundaryStaysInTier ==
    BracketReturned =>
        \A j \in DOMAIN tax_bracket :
            ( /\ Increasing(tax_bracket)
              /\ Upper(tax_bracket[j]) # Inf
              /\ taxable_income = Upper(tax_bracket[j]) ) =>
                /\ i = j
                /\ result[2] = Rate(tax_bracket[j])
                /\ result[1] =
                       MAdd(FullTiers(tax_bracket, j - 1),
                            MMul(Rate(tax_bracket[j]),
                                 Upper(tax_bracket[j])
                                     - Lower(tax_bracket, j)))
                /\ (tax_bracket = FED /\ j = 0) =>
                       result = << [d |-> 1192, f |-> 50000], 10000 >>

C2_Witness ==
    /\ BracketReturned /\ tax_bracket = FED /\ taxable_income = 48475
    /\ i = 1 /\ result[2] = 12000

(***************************************************************************)
(* C3: for taxable_income <= 0 the bracket scan returns (0, rate of the    *)
(* first tier) for every schedule, and raises nothing.                     *)
(***************************************************************************)
C3_NonPositiveIncome ==
    (op = "calculate_tax_for_bracket" /\ taxable_income <= 0) =>
        /\ pc = "returned"
        /\ error = "none"
        /\ result = << MZero, Rate(tax_bracket[0]) >>

C3_Witness ==
    /\ BracketReturned /\ taxable_income = -1000 /\ tax_bracket = FED
    /\ result = << MZero, 10000 >>

(***************************************************************************)
(* C4: for a well-formed schedule with non-negative rates, no income a     *)
(* below the income b of a returned call is taxed more than b.             *)
(***************************************************************************)
C4_Monotone ==
    (BracketReturned /\ WellFormed(tax_bracket)) =>
        \A a \in TaxableIncomes :
            a <= taxable_income =>
                MLeq(calculate_tax_for_bracket(a, tax_bracket).result[1],
                     result[1])

C4_Witness ==
    /\ BracketReturned /\ tax_bracket = Stepped /\ taxable_income = 201
    /\ result[1] = [d |-> 25, f |-> 12500]

(***************************************************************************)
(* C5: against the Social Security schedule every income >= 176100 pays    *)
(* the same tax, 176100 * 0.062 = 10918.2.                                 *)
(***************************************************************************)
C5_WageBaseCap ==
    (BracketReturned /\ tax_bracket = SocSec /\ taxable_income >= 176100) =>
        result[1] = [d |-> 10918, f |-> 20000]

C5_Witness ==
    /\ BracketReturned /\ tax_bracket = SocSec /\ taxable_income = 250000
    /\ i = 1

(***************************************************************************)
(* C6: calculate_tax called with income < 0 or deduction < 0 raises        *)
(* ValueError whatever the other argument is, returns no summary, calls    *)
(* the bracket scan for no schedule and leaves the schedule set as it was. *)
(***************************************************************************)
C6_NegativeInputRejected ==
    /\ [](( /\ op = "calculate_tax"
            /\ (income < 0 \/ deduction < 0) ) =>
              /\ pc = "raised"
              /\ error \in {"ValueError: Income cannot be negative",
                             "ValueError: Deduction cannot be negative"}
              /\ result = None
              /\ summary = None
              /\ calls = 0)
    /\ [][( /\ op' = "calculate_tax"
            /\ (income' < 0 \/ deduction' < 0) ) =>
              tax_brackets' = tax_brackets]_vars

C6_Witness ==
    /\ op = "calculate_tax" /\ pc = "raised"
    /\ income = 50000 /\ deduction = -1000
    /\ error = "ValueError: Deduction cannot be negative"

RECURSIVE SumEngineTax(_, _, _)
SumEngineTax(S, ti, n) ==
    IF n = 0 THEN MZero
    ELSE MAdd(SumEngineTax(S, ti, n - 1),
              calculate_tax_for_bracket(ti, S[n].bracket).result[1])

SummaryReturned ==
    op = "calculate_tax" /\ pc = "returned" /\ tax_brackets = TAX_BRACKETS

(***************************************************************************)
(* C8 as claimed: in every returned summary the Tax of ALL equals the sum  *)
(* of the (truncated, integer) Tax values of the per-type rows.            *)
(***************************************************************************)
C8_AllIsSumOfRows ==
    SummaryReturned =>
        Row(result, "ALL").Tax = SumRowTax(result, Len(tax_brackets))

(***************************************************************************)
(* C8 as amended: every Tax is an integer got by truncation; the Tax of    *)
(* ALL is the truncation of the sum of the untruncated per-type taxes, so  *)
(* it is never below the sum of the rows' truncated Tax values.            *)
(***************************************************************************)
C8_AllIsTruncatedSum ==
    SummaryReturned =>
        /\ \A n \in 1 .. Len(tax_brackets) :
               result[n].Tax =
                   Trunc(calculate_tax_for_bracket(
                             taxable_income, tax_brackets[n].bracket).result[1])
        /\ Row(result, "ALL").Tax =
               Trunc(SumEngineTax(tax_brackets, taxable_income,
                                  Len(tax_brackets)))
        /\ Row(result, "ALL").Tax >= SumRowTax(result, Len(tax_brackets))

C8_Witness ==
    /\ SummaryReturned
    /\ Row(result, "ALL").Tax > SumRowTax(result, Len(tax_brackets))

(***************************************************************************)
(* C9 as claimed: a schedule whose final tier has a finite upper bound is  *)
(* rejected before any accumulation: no call on it returns a result, and   *)
(* no error arises once a tier has been accumulated.                       *)
(***************************************************************************)
C9_ClosedScheduleRejected ==
    /\ ( /\ op = "calculate_tax_for_bracket"
         /\ ~Open(tax_bracket) ) =>
           /\ pc = "raised"
           /\ i = 0 /\ tax = MZero
    /\ ( /\ op = "calculate_tax"
         /\ \E n \in 1 .. Len(tax_brackets) : ~Open(tax_brackets[n].bracket) ) =>
           /\ pc = "raised"
           /\ calls = 0

(***************************************************************************)
(* C10: every shipped schedule has strictly increasing upper bounds and an *)
(* open final tier; on a shipped schedule the scan never raises, its tier  *)
(* index never passes the last tier (so it advances at most tiers - 1      *)
(* times), and a scan under way returns.                                   *)
(***************************************************************************)
C10_ScanStaysInside ==
    /\ \A tb \in Shipped : Increasing(tb) /\ Open(tb)
    /\ (op = "calculate_tax_for_bracket" /\ tax_bracket \in Shipped) =>
           /\ pc \in {"scan", "returned"}
           /\ error = "none"
           /\ i \in DOMAIN tax_bracket
           /\ i <= LastIndex(tax_bracket)

\* C10, whole: the scan stays inside a shipped schedule and, once under
\* way, returns (the loop runs on: FairSpec)
C10_ScanTerminates ==
    /\ []C10_ScanStaysInside
    /\ \A tb \in Shipped :
           (pc = "scan" /\ tax_bracket = tb)
               ~> (pc = "returned" /\ tax_bracket = tb)

C10_Witness ==
    /\ BracketReturned /\ tax_bracket = NY /\ taxable_income = 25000001
    /\ i = 8

====
